---- MODULE Spec2Model ----
(***************************************************************************)
(* Model of prompt_util.py: the PromptSettings resolver (pydantic model    *)
(* with the pre root validator fill_prompts, and load_prompts_from_yaml),  *)
(* the PromptCache and the PromptPair guided loss.                         *)
(*                                                                         *)
(* Python values are tagged records: a str is [type |-> "str", val |-> s], *)
(* None is [type |-> "NoneType"].  Latents and scales are integers.        *)
(***************************************************************************)
EXTENDS Integers, Sequences, FiniteSets, TLC

VARIABLES
    pydantic_major,  \* major version of the installed pydantic (import, line 7)
    pc,              \* position of the caller: "start", "loaded"
    prompts,         \* what yaml.safe_load returned (the raw records)
    outcome,         \* what load_prompts_from_yaml gave its caller
    pair,            \* the PromptPair under construction / in use
    loss_kwargs,     \* the latents of the last PromptPair.loss call
    loss_outcome,    \* what the last PromptPair.loss call gave its caller
    class_prompts,   \* PromptCache.prompts, the class attribute
    instances,       \* the PromptCache instances: their own attribute dicts
    put_log,         \* the __setitem__ calls made so far, oldest first, each
                     \* with the number of instances created by then
    last_get         \* the last __getitem__ call, what it returned and how
                     \* many __setitem__ calls came before it

vars == <<pydantic_major, pc, prompts, outcome, pair, loss_kwargs,
          loss_outcome, class_prompts, instances, put_log, last_get>>

resolver_vars == <<pydantic_major, pc, prompts, outcome>>
pair_vars == <<pair, loss_kwargs, loss_outcome>>
cache_vars == <<class_prompts, instances, put_log, last_get>>

----------------------------------------------------------------------------
(* Bounds *)

NumStr == 3        \* how many distinct prompt texts are tried
MaxBatch == 2      \* longest batch of raw records
MaxLatent == 2     \* latents range over 0..MaxLatent
MaxScale == 2      \* guidance scales range over -1..MaxScale
MaxInstances == 2  \* PromptCache instances created
MaxPuts == 2       \* __setitem__ calls made

----------------------------------------------------------------------------
(* Python values *)

PyStr(s) == [type |-> "str", val |-> s]
PyInt(n) == [type |-> "int", val |-> n]
PyBool(b) == [type |-> "bool", val |-> b]
PyNone == [type |-> "NoneType"]
\* A key the raw record does not have (used only to enumerate records).
Absent == [type |-> "absent"]

StrTable == <<"", "A", "U", "B", "C", "D">>
Strs == {StrTable[i] : i \in 1..NumStr}

ACTION_TYPES == {"erase", "enhance"}

\* d[k] = v on a dict
SetItem(d, k, v) == [x \in (DOMAIN d) \cup {k} |-> IF x = k THEN v ELSE d[x]]

----------------------------------------------------------------------------
(* PromptSettings *)

FieldNames == <<"target", "positive", "unconditional", "neutral", "action",
                "guidance_scale", "resolution", "dynamic_resolution",
                "batch_size">>

\* Declared defaults of the fields (used by pydantic when the key is absent
\* after the pre root validator ran).
FieldDefault(name) ==
    CASE name = "positive" -> PyNone
      [] name = "unconditional" -> PyStr("")
      [] name = "neutral" -> PyNone
      [] name = "action" -> PyStr("erase")
      [] name = "guidance_scale" -> PyInt(1)
      [] name = "resolution" -> PyInt(512)
      [] name = "dynamic_resolution" -> PyBool(FALSE)
      [] name = "batch_size" -> PyInt(1)

\* pydantic 1 makes a field whose default is None Optional; pydantic 2 keeps
\* the annotation str.
AllowsNone(name, major) == major = 1 /\ name \in {"positive", "neutral"}

\* Field validation that takes any string for the action.
FieldError_any_action(name, v, major) ==
    IF name \in {"target", "positive", "unconditional", "neutral"}
    THEN IF v.type = "str" THEN ""
         ELSE IF v.type = "NoneType" /\ AllowsNone(name, major) THEN ""
         ELSE IF v.type = "NoneType" THEN "none is not an allowed value"
         ELSE "str type expected"
    ELSE IF name = "action"
    THEN IF v.type = "str" THEN "" ELSE "str type expected"
    ELSE IF name = "guidance_scale"
    THEN IF v.type \in {"int", "float"} THEN ""
         ELSE "value is not a valid float"
    ELSE IF name = "dynamic_resolution"
    THEN IF v.type = "bool" THEN "" ELSE "value could not be parsed to a boolean"
    ELSE IF v.type = "int" THEN "" ELSE "value is not a valid integer"

\* The error pydantic reports for value v of field name, or "" if v is valid.
FieldError(name, v, major) ==
    IF name \in {"target", "positive", "unconditional", "neutral"}
    THEN IF v.type = "str" THEN ""
         ELSE IF v.type = "NoneType" /\ AllowsNone(name, major) THEN ""
         ELSE IF v.type = "NoneType" THEN "none is not an allowed value"
         ELSE "str type expected"
    ELSE IF name = "action"
    THEN IF v.type = "str" /\ v.val \in ACTION_TYPES THEN ""
         ELSE "unexpected value; permitted: 'erase', 'enhance'"
    ELSE IF name = "guidance_scale"
    THEN IF v.type \in {"int", "float"} THEN ""
         ELSE "value is not a valid float"
    ELSE IF name = "dynamic_resolution"
    THEN IF v.type = "bool" THEN "" ELSE "value could not be parsed to a boolean"
    ELSE IF v.type = "int" THEN "" ELSE "value is not a valid integer"

\* The validated value of a field: strings and None stay tagged, the action
\* is its literal, numbers and booleans are bare (float(2) is written 2: the
\* model's numbers are integers).
FieldValue(name, v) ==
    IF name \in {"target", "positive", "unconditional", "neutral"} THEN v
    ELSE v.val

\* fill_prompts that leaves an omitted positive to the field's default.
fill_prompts_positive_unfilled(values) ==
    LET keys == DOMAIN values IN
    IF "target" \notin keys
    THEN [raised |-> TRUE, message |-> "target must be specified"]
    ELSE LET v2 == IF "unconditional" \notin keys
                   THEN SetItem(values, "unconditional", PyStr(""))
                   ELSE values
             v3 == IF "neutral" \notin keys
                   THEN SetItem(v2, "neutral", v2["unconditional"])
                   ELSE v2
         IN [raised |-> FALSE, values |-> v3]

\* fill_prompts that fills an omitted neutral with the empty default.
fill_prompts_neutral_empty(values) ==
    LET keys == DOMAIN values IN
    IF "target" \notin keys
    THEN [raised |-> TRUE, message |-> "target must be specified"]
    ELSE LET v1 == IF "positive" \notin keys
                   THEN SetItem(values, "positive", values["target"])
                   ELSE values
             v2 == IF "unconditional" \notin keys
                   THEN SetItem(v1, "unconditional", PyStr(""))
                   ELSE v1
             v3 == IF "neutral" \notin keys
                   THEN SetItem(v2, "neutral", PyStr(""))
                   ELSE v2
         IN [raised |-> FALSE, values |-> v3]

\* not values.get(k): the key is absent, or its value is None or "".
Falsy(values, k) ==
    \/ k \notin DOMAIN values
    \/ values[k].type = "NoneType"
    \/ values[k].type = "str" /\ values[k].val = ""

\* fill_prompts that decides by truthiness of the value.
fill_prompts_truthiness(values) ==
    LET keys == DOMAIN values IN
    IF "target" \notin keys
    THEN [raised |-> TRUE, message |-> "target must be specified"]
    ELSE LET v1 == IF Falsy(values, "positive")
                   THEN SetItem(values, "positive", values["target"])
                   ELSE values
             v2 == IF Falsy(v1, "unconditional")
                   THEN SetItem(v1, "unconditional", PyStr(""))
                   ELSE v1
             v3 == IF Falsy(v2, "neutral")
                   THEN SetItem(v2, "neutral", v2["unconditional"])
                   ELSE v2
         IN [raised |-> FALSE, values |-> v3]

fill_prompts(values) ==
    LET keys == DOMAIN values IN
    IF "target" \notin keys
    THEN [raised |-> TRUE, message |-> "target must be specified"]
    ELSE LET v1 == IF "positive" \notin keys
                   THEN SetItem(values, "positive", values["target"])
                   ELSE values
             v2 == IF "unconditional" \notin keys
                   THEN SetItem(v1, "unconditional", PyStr(""))
                   ELSE v1
             v3 == IF "neutral" \notin keys
                   THEN SetItem(v2, "neutral", v2["unconditional"])
                   ELSE v2
         IN [raised |-> FALSE, values |-> v3]

FieldIndex == 1..Len(FieldNames)

\* PromptSettings(**raw): the pre root validator, then every field.
PromptSettings(raw, major) ==
    LET pre == fill_prompts(raw) IN
    IF pre.raised
    THEN [raised |-> TRUE,
          errors |-> {[loc |-> <<PyStr("__root__")>>, msg |-> pre.message]}]
    ELSE LET values == pre.values
             given(name) == IF name \in DOMAIN values THEN values[name]
                            ELSE FieldDefault(name)
             errors == {[loc |-> <<PyStr(FieldNames[i])>>,
                         msg |-> FieldError(FieldNames[i],
                                            given(FieldNames[i]), major)] :
                          i \in {j \in FieldIndex :
                                   /\ FieldNames[j] \in DOMAIN values
                                   /\ FieldError(FieldNames[j],
                                                 given(FieldNames[j]),
                                                 major) # ""}}
         IN IF errors # {}
            THEN [raised |-> TRUE, errors |-> errors]
            ELSE [raised |-> FALSE,
                  value |-> [target |-> FieldValue("target", given("target")),
                             positive |-> FieldValue("positive", given("positive")),
                             unconditional |-> FieldValue("unconditional",
                                                          given("unconditional")),
                             neutral |-> FieldValue("neutral", given("neutral")),
                             action |-> FieldValue("action", given("action")),
                             guidance_scale |-> FieldValue("guidance_scale",
                                                           given("guidance_scale")),
                             resolution |-> FieldValue("resolution",
                                                       given("resolution")),
                             dynamic_resolution |->
                                 FieldValue("dynamic_resolution",
                                            given("dynamic_resolution")),
                             batch_size |-> FieldValue("batch_size",
                                                       given("batch_size"))]]

----------------------------------------------------------------------------
(* load_prompts_from_yaml *)

\* What a call gives its caller: a returned value or a raised exception.
Returned(v) == [returned |-> TRUE, value |-> v]
Raised(e) == [returned |-> FALSE, exc |-> e]
NotCalled == [returned |-> FALSE]

\* A comprehension that hands back what it built when a record fails.
RECURSIVE Comprehension_partial(_, _, _, _)
Comprehension_partial(raws, i, acc, major) ==
    IF i > Len(raws) THEN [returned |-> TRUE, value |-> acc]
    ELSE LET s == PromptSettings(raws[i], major) IN
         IF s.raised
         THEN [returned |-> TRUE, value |-> acc]
         ELSE Comprehension_partial(raws, i + 1, Append(acc, s.value), major)

\* The list comprehension [PromptSettings(**prompt) for prompt in prompts]:
\* records i..Len(raws) still to do, acc built so far; the first record that
\* fails raises out of the comprehension and acc is dropped.
RECURSIVE Comprehension(_, _, _, _)
Comprehension(raws, i, acc, major) ==
    IF i > Len(raws) THEN Returned(acc)
    ELSE LET s == PromptSettings(raws[i], major) IN
         IF s.raised
         THEN Raised([type |-> "ValidationError", errors |-> s.errors])
         ELSE Comprehension(raws, i + 1, Append(acc, s.value), major)

load_prompts_from_yaml(raws, major) ==
    IF Len(raws) = 0
    THEN Raised([type |-> "ValueError",
                 errors |-> {[loc |-> <<>>, msg |-> "prompts file is empty"]}])
    ELSE Comprehension(raws, 1, <<>>, major)

----------------------------------------------------------------------------
(* PromptPair *)

LossFns == {"abs", "sq"}

\* The injected loss_fn: absolute difference or squared difference.
ApplyLossFn(fn, a, b) ==
    IF fn = "abs" THEN (IF a >= b THEN a - b ELSE b - a)
    ELSE (a - b) * (a - b)

PromptPair__init__(loss_fn, target, positive, unconditional, neutral, guidance_scale, resolution, dynamic_resolution, batch_size, action) ==
    [loss_fn |-> loss_fn,
     target |-> target,
     positive |-> positive,
     unconditional |-> unconditional,
     neutral |-> neutral,
     guidance_scale |-> guidance_scale,
     resolution |-> resolution,
     dynamic_resolution |-> dynamic_resolution,
     batch_size |-> batch_size,
     action |-> action]

\* _erase that adds the guidance term.
_erase_added(self, kw) ==
    ApplyLossFn(self.loss_fn,
                kw.target_latents,
                kw.neutral_latents
                + self.guidance_scale
                  * (kw.positive_latents - kw.unconditional_latents))

_erase(self, kw) ==
    ApplyLossFn(self.loss_fn,
                kw.target_latents,
                kw.neutral_latents
                - self.guidance_scale
                  * (kw.positive_latents - kw.unconditional_latents))

_enhance(self, kw) ==
    ApplyLossFn(self.loss_fn,
                kw.target_latents,
                kw.neutral_latents
                + self.guidance_scale
                  * (kw.positive_latents - kw.unconditional_latents))

loss(self, kw) ==
    IF self.action = "erase" THEN Returned(_erase(self, kw))
    ELSE IF self.action = "enhance" THEN Returned(_enhance(self, kw))
    ELSE Raised([type |-> "ValueError",
                 msg |-> "action must be erase or enhance"])

----------------------------------------------------------------------------
(* PromptCache *)

EmptyDict == [x \in {} |-> 0]

Tensor(v) == [type |-> "tensor", val |-> v]

\* A constructor that gives each instance a dict of its own.
PromptCacheNew_own_dict == [prompts |-> EmptyDict]

\* A new instance: the class defines no __init__, so the instance has no
\* attribute of its own.
PromptCacheNew == EmptyDict

\* self.prompts: the instance's own attribute if it has one, else the class's.
SelfPrompts(inst, cls) ==
    IF "prompts" \in DOMAIN inst THEN inst["prompts"] ELSE cls

\* A lookup that makes up a zero tensor for a key that was never set.
__getitem___zero_default(dict, name) ==
    IF name \in DOMAIN dict THEN dict[name] ELSE Tensor(0)

__getitem__(dict, name) ==
    IF name \in DOMAIN dict THEN dict[name] ELSE PyNone

__setitem__(dict, name, value) == SetItem(dict, name, value)

----------------------------------------------------------------------------
(* Inputs *)

\* The raw record a choice of (value or Absent) per key stands for.
Raw(c) == [k \in {x \in DOMAIN c : c[x] # Absent} |-> c[k]]

StrOrNone == {PyStr(s) : s \in Strs} \cup {PyNone}

\* One record, every prompt text free: absent, null or a string.
PromptRecords ==
    {Raw(c) : c \in
        [target : {Absent} \cup StrOrNone,
         positive : {Absent} \cup StrOrNone,
         unconditional : {Absent} \cup StrOrNone,
         neutral : {Absent} \cup StrOrNone,
         action : {Absent, PyStr("erase"), PyStr("enhance"), PyStr("invert")}]}

\* One record, every scalar setting free.
ScalarRecords ==
    {Raw(c) : c \in
        [target : {PyStr("A")},
         action : {Absent, PyStr("enhance"), PyStr("invert")},
         guidance_scale : {Absent, PyInt(2), PyStr("A")},
         resolution : {Absent, PyInt(768), PyStr("A")},
         dynamic_resolution : {Absent, PyBool(TRUE), PyStr("A")},
         batch_size : {Absent, PyInt(2), PyStr("A")}]}

FullRecords == PromptRecords \cup ScalarRecords

\* Records of a batch: target, action and guidance_scale free.
BatchRecords ==
    {Raw(c) : c \in
        [target : {Absent, PyStr("A")},
         action : {Absent, PyStr("erase"), PyStr("enhance"), PyStr("invert")},
         guidance_scale : {Absent, PyInt(2)}]}

Batches == UNION {[1..n -> BatchRecords] : n \in 0..MaxBatch}

ResolveInputs == {<<r>> : r \in FullRecords} \cup Batches

Latents == 0..MaxLatent
Scales == -1..MaxScale
Embeddings == {0, 1}
PipelineLatents == {0, 1}
CacheKeys == {"A", "U"}
CacheValues == {1, 2}

KwargsOver(S) ==
    [target_latents : S, positive_latents : S,
     unconditional_latents : S, neutral_latents : S]

----------------------------------------------------------------------------
(* State machine *)

Init ==
    /\ pydantic_major \in {1, 2}
    /\ pc = "start"
    /\ prompts = <<>>
    /\ outcome = NotCalled
    /\ pair = PyNone
    /\ loss_kwargs = PyNone
    /\ loss_outcome = NotCalled
    /\ class_prompts = EmptyDict
    /\ instances = <<>>
    /\ put_log = <<>>
    /\ last_get = PyNone

\* The caller loads a prompts file whose content is raws.
Load(raws) ==
    /\ pc = "start"
    /\ prompts' = raws
    /\ outcome' = load_prompts_from_yaml(raws, pydantic_major)
    /\ pc' = "loaded"
    /\ UNCHANGED <<pydantic_major, pair_vars, cache_vars>>

\* The caller builds a PromptPair from the i-th resolved PromptSettings.
NewPairFromSettings(i, loss_fn, t, u) ==
    /\ pc = "loaded"
    /\ outcome.returned
    /\ i \in 1..Len(outcome.value)
    /\ pair = PyNone
    /\ LET settings == outcome.value[i] IN
       pair' = PromptPair__init__(loss_fn, t, t, u, u,
                                  settings.guidance_scale,
                                  settings.resolution,
                                  settings.dynamic_resolution,
                                  settings.batch_size,
                                  settings.action)
    /\ UNCHANGED <<resolver_vars, loss_kwargs, loss_outcome, cache_vars>>

\* The caller builds a PromptPair directly.
NewPair(loss_fn, t, u, guidance_scale, action) ==
    /\ pc = "start"
    /\ pair = PyNone
    /\ pair' = PromptPair__init__(loss_fn, t, t, u, u, guidance_scale,
                                  512, FALSE, 1, action)
    /\ UNCHANGED <<resolver_vars, loss_kwargs, loss_outcome, cache_vars>>

\* pair.loss(**kw)
Loss(kw) ==
    /\ pair # PyNone
    /\ loss_kwargs' = kw
    /\ loss_outcome' = loss(pair, kw)
    /\ UNCHANGED <<resolver_vars, pair, cache_vars>>

\* PromptCache()
NewCache ==
    /\ Len(instances) < MaxInstances
    /\ instances' = Append(instances, PromptCacheNew)
    /\ UNCHANGED <<resolver_vars, pair_vars, class_prompts, put_log, last_get>>

\* cache[name] = value through instance i
Put(i, name, value) ==
    /\ i \in 1..Len(instances)
    /\ Len(put_log) < MaxPuts
    /\ IF "prompts" \in DOMAIN instances[i]
       THEN /\ instances' =
                 [instances EXCEPT ![i] =
                     SetItem(@, "prompts",
                             __setitem__(SelfPrompts(@, class_prompts),
                                         name, value))]
            /\ UNCHANGED class_prompts
       ELSE /\ class_prompts' =
                 __setitem__(SelfPrompts(instances[i], class_prompts),
                             name, value)
            /\ UNCHANGED instances
    /\ put_log' = Append(put_log, [inst |-> i, key |-> name, value |-> value,
                                    created |-> Len(instances)])
    /\ UNCHANGED <<resolver_vars, pair_vars, last_get>>

\* cache[name] through instance i
Get(i, name) ==
    /\ i \in 1..Len(instances)
    /\ last_get' = [inst |-> i, key |-> name, puts |-> Len(put_log),
                    result |-> __getitem__(SelfPrompts(instances[i],
                                                       class_prompts), name)]
    /\ UNCHANGED <<resolver_vars, pair_vars, class_prompts, instances, put_log>>

\* Resolver: one call of load_prompts_from_yaml.
Next == pc = "start" /\ \E raws \in ResolveInputs : Load(raws)

Spec == Init /\ [][Next]_vars

\* Pipeline: load, build a pair from a resolved setting, compute its loss.
NextPipeline ==
    \/ pc = "start" /\ pair = PyNone /\ \E raws \in Batches : Load(raws)
    \/ \E fn \in LossFns, a \in ACTION_TYPES \cup {"invert"} :
          NewPair(fn, 0, 0, 1, a)
    \/ \E i \in 1..MaxBatch, fn \in LossFns, t \in Embeddings, u \in Embeddings :
          NewPairFromSettings(i, fn, t, u)
    \/ \E kw \in KwargsOver(PipelineLatents) : Loss(kw)

SpecPipeline == Init /\ [][NextPipeline]_vars

\* Guided loss on pairs built directly.
NextLoss ==
    \/ \E fn \in LossFns, t \in Embeddings, u \in Embeddings, g \in Scales,
          a \in ACTION_TYPES \cup {"invert"} :
          NewPair(fn, t, u, g, a)
    \/ \E kw \in KwargsOver(Latents) : pc = "start" /\ Loss(kw)

SpecLoss == Init /\ [][NextLoss]_vars

\* Cache: instances created, written and read in any order.
NextCache ==
    \/ NewCache
    \/ \E i \in 1..MaxInstances, k \in CacheKeys, v \in CacheValues :
          Put(i, k, Tensor(v))
    \/ \E i \in 1..MaxInstances, k \in CacheKeys : Get(i, k)

SpecCache == Init /\ [][NextCache]_vars

----------------------------------------------------------------------------
(* Claims about the resolver (Spec) *)

Loaded == pc = "loaded"

StrKeys == {"target", "positive", "unconditional", "neutral"}

IsStr(v) == v.type = "str"

\* The record supplies exactly the keys ks, each with a string value.
SuppliesOnlyStrings(r, ks) == DOMAIN r = ks /\ \A k \in ks : IsStr(r[k])

\* C1: a record that supplies only target (a string t) resolves, and to
\* positive = t, unconditional = "", neutral = "", action = erase,
\* guidance_scale = 1, resolution = 512, dynamic_resolution = false,
\* batch_size = 1.
C1_TargetOnlyDefaults ==
    Loaded =>
        /\ (Len(prompts) = 1 /\ SuppliesOnlyStrings(prompts[1], {"target"}))
              => outcome.returned
        /\ outcome.returned =>
              \A i \in 1..Len(prompts) :
                 SuppliesOnlyStrings(prompts[i], {"target"}) =>
                    outcome.value[i] =
                       [target |-> prompts[i]["target"],
                        positive |-> prompts[i]["target"],
                        unconditional |-> PyStr(""),
                        neutral |-> PyStr(""),
                        action |-> "erase",
                        guidance_scale |-> 1,
                        resolution |-> 512,
                        dynamic_resolution |-> FALSE,
                        batch_size |-> 1]

C1_Witness ==
    /\ Loaded
    /\ prompts = <<[k \in {"target"} |-> PyStr("A")]>>
    /\ outcome.returned
    /\ outcome.value[1].positive = PyStr("A")

\* C2: a record that supplies target and unconditional (a string u) and omits
\* neutral resolves to neutral = u; a record that omits both unconditional
\* and neutral resolves to neutral = "".
C2_NeutralCopiesUnconditional ==
    Loaded =>
        /\ (/\ Len(prompts) = 1
            /\ SuppliesOnlyStrings(prompts[1], {"target", "unconditional"}))
              => outcome.returned
        /\ outcome.returned =>
              \A i \in 1..Len(prompts) :
                 "neutral" \notin DOMAIN prompts[i] =>
                    IF "unconditional" \in DOMAIN prompts[i]
                    THEN outcome.value[i].neutral = prompts[i]["unconditional"]
                    ELSE outcome.value[i].neutral = PyStr("")

C2_Witness ==
    /\ Loaded
    /\ Len(prompts) = 1
    /\ DOMAIN prompts[1] = {"target", "unconditional"}
    /\ prompts[1]["target"] = PyStr("A")
    /\ prompts[1]["unconditional"] = PyStr("U")
    /\ outcome.returned
    /\ outcome.value[1].neutral = PyStr("U")

C8_StringFieldsNeverNull ==
    (Loaded /\ outcome.returned) =>
        \A i \in 1..Len(outcome.value) :
           \A k \in StrKeys : IsStr(outcome.value[i][k])

\* The records of the loaded batch that lack the key target.
LackTarget == {i \in 1..Len(prompts) : "target" \notin DOMAIN prompts[i]}

\* The records of the loaded batch whose action is no known literal.
BadAction ==
    {i \in 1..Len(prompts) :
        /\ "action" \in DOMAIN prompts[i]
        /\ ~(IsStr(prompts[i]["action"])
             /\ prompts[i]["action"].val \in ACTION_TYPES)}

\* The error of a record without target.
MissingFieldError ==
    [type |-> "ValidationError",
     errors |-> {[loc |-> <<PyStr("__root__")>>,
                  msg |-> "target must be specified"]}]

\* Nothing was handed to the caller but the exception exc.
RaisedOnly(o) == ~o.returned /\ DOMAIN o = {"returned", "exc"}

\* Every record before the i-th supplies target and only valid values.
ValidBefore(i) ==
    \A j \in 1..(i - 1) :
       /\ "target" \in DOMAIN prompts[j]
       /\ \A k \in DOMAIN prompts[j] :
             FieldError(k, prompts[j][k], pydantic_major) = ""

\* C6 as stated: whenever any record of the batch lacks target, resolution
\* raises the missing-field error and returns no PromptSettings.
C6_Original ==
    (Loaded /\ LackTarget # {}) =>
        /\ RaisedOnly(outcome)
        /\ outcome.exc = MissingFieldError

\* C6 amended: whenever any record of the batch lacks target, resolution
\* raises and returns no PromptSettings; the exception is the missing-field
\* error when every record before the first one lacking target is valid.
C6_MissingTargetAbortsBatch ==
    (Loaded /\ LackTarget # {}) =>
        /\ RaisedOnly(outcome)
        /\ \A i \in LackTarget :
              ValidBefore(i) => outcome.exc = MissingFieldError

C6_Witness ==
    /\ Loaded
    /\ Len(prompts) = 2
    /\ "target" \in DOMAIN prompts[1]
    /\ ValidBefore(2)
    /\ LackTarget = {2}
    /\ RaisedOnly(outcome)
    /\ outcome.exc = MissingFieldError

\* The error entry e names record index i (0-based or 1-based) in its loc.
NamesIndex(e, i) ==
    \E n \in DOMAIN e.loc : e.loc[n] \in {PyInt(i - 1), PyInt(i)}

NamesField(e, f) == \E n \in DOMAIN e.loc : e.loc[n] = PyStr(f)

\* C7: when the record at index i has an action outside {erase, enhance}
\* (it supplies target, and the records before it are valid), resolution
\* raises an error that names the field action and the index i, and returns
\* no list.
C7_InvalidActionNamesFieldAndIndex ==
    Loaded =>
        \A i \in BadAction :
           ("target" \in DOMAIN prompts[i] /\ ValidBefore(i)) =>
           /\ RaisedOnly(outcome)
           /\ \E e \in outcome.exc.errors :
                 NamesField(e, "action") /\ NamesIndex(e, i)

----------------------------------------------------------------------------
(* Claims about the guided loss (SpecLoss, SpecPipeline) *)

LossCalled == loss_outcome # NotCalled

UnknownActionError ==
    [type |-> "ValueError", msg |-> "action must be erase or enhance"]

\* The guidance-shifted reference latent of the last loss call.
Reference ==
    LET d == pair.guidance_scale
             * (loss_kwargs.positive_latents
                - loss_kwargs.unconditional_latents)
    IN IF pair.action = "erase" THEN loss_kwargs.neutral_latents - d
       ELSE loss_kwargs.neutral_latents + d

ExampleKwargs ==
    [target_latents |-> 0, positive_latents |-> 2,
     unconditional_latents |-> 0, neutral_latents |-> 0]

\* C5: for erase and enhance, loss returns exactly loss_fn(target, R), with
\* R = neutral - g*(positive - unconditional) for erase and
\* R = neutral + g*(positive - unconditional) for enhance; on target = 0,
\* positive = 2, unconditional = 0, neutral = 0, g = 1 the reference is -2
\* for erase and 2 for enhance, and the absolute difference is 2.
C5_LossIsLossFnOfReference ==
    (LossCalled /\ pair.action \in ACTION_TYPES) =>
        /\ loss_outcome =
              Returned(ApplyLossFn(pair.loss_fn,
                                   loss_kwargs.target_latents, Reference))
        /\ (loss_kwargs = ExampleKwargs /\ pair.guidance_scale = 1) =>
              /\ Reference = IF pair.action = "erase" THEN -2 ELSE 2
              /\ pair.loss_fn = "abs" => loss_outcome.value = 2

C5_Witness ==
    /\ LossCalled
    /\ pair.action = "erase"
    /\ pair.loss_fn = "abs"
    /\ pair.guidance_scale = 1
    /\ loss_kwargs = ExampleKwargs
    /\ Reference = -2
    /\ loss_outcome = Returned(2)

\* C9: loss on a pair whose action is neither erase nor enhance raises the
\* unknown-action error; every resolved PromptSettings has its action in
\* {erase, enhance}, and loss on a pair built with the action of a resolved
\* PromptSettings never raises.
C9_UnknownActionUnreachable ==
    /\ (LossCalled /\ pair.action \notin ACTION_TYPES) =>
          loss_outcome = Raised(UnknownActionError)
    /\ (Loaded /\ outcome.returned) =>
          \A i \in 1..Len(outcome.value) :
             outcome.value[i].action \in ACTION_TYPES
    /\ (Loaded /\ LossCalled) => loss_outcome.returned

C9_Witness ==
    /\ Loaded
    /\ Len(prompts) = 2
    /\ BadAction = {}
    /\ pair # PyNone
    /\ pair.action = "enhance"
    /\ LossCalled
    /\ loss_outcome.returned

----------------------------------------------------------------------------
(* Claims about the cache (SpecCache) *)

\* The positions among the first n logged puts that wrote key k.
PutsOf(k, n) == {p \in 1..n : put_log[p].key = k}

Latest(ps) == CHOOSE p \in ps : \A q \in ps : q <= p

\* What a get of k must return after the first n logged puts.
Expected(k, n) ==
    IF PutsOf(k, n) = {} THEN PyNone
    ELSE put_log[Latest(PutsOf(k, n))].value

\* The mapping instance i reads and writes.
Mapping(i) == SelfPrompts(instances[i], class_prompts)

\* C4: get(k) returned the value of the most recent put(k, v) before it, and
\* the absent-marker if there was none; the cache holds exactly the keys that
\* were put, each with its most recent value, whatever other puts and gets
\* happened.
C4_GetReturnsLatestPut ==
    /\ last_get # PyNone =>
          last_get.result = Expected(last_get.key, last_get.puts)
    /\ \A i \in 1..Len(instances) :
          /\ DOMAIN Mapping(i) = {put_log[p].key : p \in 1..Len(put_log)}
          /\ \A k \in DOMAIN Mapping(i) :
                Mapping(i)[k] = Expected(k, Len(put_log))

C4_Witness ==
    /\ last_get # PyNone
    /\ last_get.puts >= 2
    /\ Cardinality(PutsOf(last_get.key, last_get.puts)) >= 2
    /\ put_log[1].key = last_get.key
    /\ put_log[1].value # last_get.result
    /\ last_get.result = Expected(last_get.key, last_get.puts)
    /\ \E k \in CacheKeys : Expected(k, Len(put_log)) = PyNone

\* C10: all instances share one mapping: every instance reads the same
\* mapping, and a get through an instance other than the one that made the
\* most recent put of the key, also one created after that put, returns the
\* value put and not the absent-marker.
C10_InstancesShareMapping ==
    /\ \A i, j \in 1..Len(instances) : Mapping(i) = Mapping(j)
    /\ \A i \in 1..Len(instances) : "prompts" \notin DOMAIN instances[i]
    /\ (last_get # PyNone /\ PutsOf(last_get.key, last_get.puts) # {}) =>
          LET p == put_log[Latest(PutsOf(last_get.key, last_get.puts))]
          IN last_get.result = p.value /\ last_get.result # PyNone

C10_Witness ==
    /\ last_get # PyNone
    /\ PutsOf(last_get.key, last_get.puts) # {}
    /\ LET p == put_log[Latest(PutsOf(last_get.key, last_get.puts))]
       IN /\ p.inst # last_get.inst
          /\ last_get.inst > p.created
          /\ last_get.result = p.value

====
